---- MODULE Spec2Model ----
(***************************************************************************)
(* A model of the word-wrapping writer of wordwrap/wordwrap.go: the        *)
(* WordWrap struct, its flush helpers (addSpace, addWord, addNewLine),     *)
(* the per-rune dispatch of Write with its ANSI normaliser, and Close.     *)
(*                                                                         *)
(* Text is a sequence of runes; a rune is a string.  The runes used are    *)
(* the ones the code distinguishes: the escape marker, '[' and ';', the    *)
(* digit '0', non-zero digits, ASCII letters (sequence terminators), the   *)
(* space, the tab, the newline, the default breakpoint '-' and one         *)
(* double-width rune.                                                      *)
(***************************************************************************)
EXTENDS Integers, Sequences, FiniteSets, TLC

VARIABLES w, input, closed, ret

vars == <<w, input, closed, ret>>

\* ---------------------------------------------------------------- runes

ESC  == "ESC"
NL   == "\n"
TAB  == "\t"
SP   == " "
WIDE == "WIDE"

NonZeroDigits == {"1", "2", "3", "4", "5", "6", "7", "8", "9"}
Letters       == {"a", "m"}

defaultBreakpoints == {"-"}
defaultNewline     == {NL}

\* runewidth.RuneWidth: control runes 0 columns, East Asian wide runes 2, else 1.
RuneWidth(c) ==
    IF c \in {ESC, NL, TAB} THEN 0 ELSE IF c = WIDE THEN 2 ELSE 1

\* Length in bytes of the UTF-8 encoding of a rune (bytes.Buffer.Len counts bytes).
ByteLen(c) == IF c = WIDE THEN 3 ELSE 1

RECURSIVE BytesLen(_)
BytesLen(s) == IF s = <<>> THEN 0 ELSE ByteLen(Head(s)) + BytesLen(Tail(s))

\* unicode.IsSpace
IsSpace(c) == c \in {SP, TAB, NL}

\* the terminator test of an escape sequence: an ASCII letter (0x40-0x5a, 0x61-0x7a)
IsTerminator(c) == c \in Letters

inGroup(a, c) == c \in a

RECURSIVE Repeat(_, _)
Repeat(c, n) == IF n <= 0 THEN <<>> ELSE <<c>> \o Repeat(c, n - 1)

\* ansi.Buffer.PrintableRuneWidth: the columns of a text, the bytes from an escape
\* marker up to and including the next terminator counting for nothing.
RECURSIVE PrintableWidthFrom(_, _)
PrintableWidthFrom(s, inAnsi) ==
    IF s = <<>> THEN 0
    ELSE IF Head(s) = ESC THEN PrintableWidthFrom(Tail(s), TRUE)
    ELSE IF inAnsi THEN PrintableWidthFrom(Tail(s), ~IsTerminator(Head(s)))
    ELSE RuneWidth(Head(s)) + PrintableWidthFrom(Tail(s), FALSE)

PrintableRuneWidth(s) == PrintableWidthFrom(s, FALSE)

\* ---------------------------------------------------------------- the struct

\* NewWriter(limit), with the exported fields then set by the caller.  The field
\* panicked is not a field of the struct: it records that an operation aborted
\* (strings.Repeat panics on a negative count).
NewWriter(limit, keepNewlines, hardWrap, tabReplace, preserveSpaces) ==
    [ Limit          |-> limit,
      Breakpoints    |-> defaultBreakpoints,
      Newline        |-> defaultNewline,
      KeepNewlines   |-> keepNewlines,
      HardWrap       |-> hardWrap,
      TabReplace     |-> tabReplace,
      PreserveSpaces |-> preserveSpaces,
      buf            |-> <<>>,
      space          |-> <<>>,
      word           |-> <<>>,
      lineLen        |-> 0,
      ansi           |-> FALSE,
      wroteBegin     |-> FALSE,
      lastAnsi       |-> <<>>,
      newArgument    |-> FALSE,
      leadingZero    |-> FALSE,
      panicked       |-> FALSE ]

\* ---------------------------------------------------------------- flushes

\* the loop of addSpace stopping one line early: length > limit for length >= limit
RECURSIVE addSpaceLinesStopsEarly(_, _, _)
addSpaceLinesStopsEarly(b, length, limit) ==
    IF length > limit
    THEN addSpaceLinesStopsEarly(b \o <<NL>> \o Repeat(SP, limit), length - limit, limit)
    ELSE [buf |-> b, length |-> length]

\* the loop of addSpace: one full line of spaces per complete multiple of Limit
RECURSIVE addSpaceLines(_, _, _)
addSpaceLines(b, length, limit) ==
    IF length >= limit
    THEN addSpaceLines(b \o <<NL>> \o Repeat(SP, limit), length - limit, limit)
    ELSE [buf |-> b, length |-> length]

\* adds pending spaces to the buffer and then resets the space buffer
addSpace(s) ==
    IF BytesLen(s.space) <= s.Limit - s.lineLen
    THEN [s EXCEPT !.lineLen = @ + BytesLen(s.space),
                   !.buf     = @ \o s.space,
                   !.space   = <<>>]
    ELSE LET first == s.Limit - s.lineLen IN
         IF first < 0
         THEN [s EXCEPT !.panicked = TRUE]
         ELSE LET l == addSpaceLines(s.buf \o Repeat(SP, first),
                                     BytesLen(s.space) - first, s.Limit)
                  b == IF l.length > 0
                       THEN l.buf \o <<NL>> \o Repeat(SP, l.length)
                       ELSE l.buf
              IN [s EXCEPT !.buf = b, !.lineLen = l.length, !.space = <<>>]

\* addWord with Reset called on the output buffer instead of the word buffer
addWordResetsBuf(s) ==
    IF Len(s.word) > 0
    THEN LET t == addSpace(s) IN
         IF t.panicked THEN t
         ELSE [t EXCEPT !.lineLen = @ + PrintableRuneWidth(t.word),
                        !.buf     = <<>>]
    ELSE s

addWord(s) ==
    IF Len(s.word) > 0
    THEN LET t == addSpace(s) IN
         IF t.panicked THEN t
         ELSE [t EXCEPT !.lineLen = @ + PrintableRuneWidth(t.word),
                        !.buf     = @ \o t.word,
                        !.word    = <<>>]
    ELSE s

ResetSeq == <<ESC, "[", "0", "m">>

addNewLine(s) ==
    LET t == IF s.PreserveSpaces THEN addSpace(s) ELSE s IN
    IF t.panicked THEN t
    ELSE [t EXCEPT !.buf        = @ \o (IF Len(t.lastAnsi) # 0 THEN ResetSeq ELSE <<>>)
                                    \o <<NL>>,
                   !.lineLen    = 0,
                   !.space      = <<>>,
                   !.wroteBegin = FALSE]

\* ---------------------------------------------------------------- Write, rune by rune

\* the restart of the last escape sequence after a line break, the first statement
\* of the loop body of Write
restartAnsi(s) ==
    IF ~s.wroteBegin /\ ~s.ansi /\ Len(s.lastAnsi) # 0
    THEN addWord([s EXCEPT !.buf = @ \o s.lastAnsi])
    ELSE s

\* c = '\x1B': an escape sequence begins
markerRune(s, c) ==
    [s EXCEPT !.word        = Append(@, c),
              !.lastAnsi    = Append(@, c),
              !.ansi        = TRUE,
              !.newArgument = TRUE]

\* terminatorRune that forgets the withheld zero of a last bare-zero argument
terminatorRuneDropsZero(s, c) ==
    IF IsTerminator(c)
    THEN [s EXCEPT !.lastAnsi    = IF s.leadingZero THEN <<>> ELSE @,
                   !.leadingZero = FALSE,
                   !.ansi        = FALSE]
    ELSE s

\* terminatorRune that ends the sequence without clearing leadingZero
terminatorRuneKeepsFlag(s, c) ==
    IF IsTerminator(c)
    THEN IF s.leadingZero
         THEN [s EXCEPT !.word     = Append(@, "0"),
                        !.lastAnsi = <<>>,
                        !.ansi     = FALSE]
         ELSE [s EXCEPT !.ansi = FALSE]
    ELSE s

\* a terminated sequence: a withheld zero is written, and resets the last sequence
terminatorRune(s, c) ==
    IF IsTerminator(c)
    THEN IF s.leadingZero
         THEN [s EXCEPT !.word        = Append(@, "0"),
                        !.lastAnsi    = <<>>,
                        !.leadingZero = FALSE,
                        !.ansi        = FALSE]
         ELSE [s EXCEPT !.ansi = FALSE]
    ELSE s

\* ansiRune whose split at a bare-zero argument keeps the last sequence instead
\* of restarting it
ansiRuneKeepsLastAnsi(s, c) ==
    IF c = "0" /\ s.newArgument
    THEN [s EXCEPT !.leadingZero = TRUE]
    ELSE LET a == [s EXCEPT !.newArgument = FALSE,
                            !.leadingZero = IF inGroup(NonZeroDigits, c) THEN FALSE ELSE @]
             g == IF inGroup({"[", ";"}, c) THEN [a EXCEPT !.newArgument = TRUE] ELSE a
         IN IF inGroup({"[", ";"}, c) /\ a.leadingZero
            THEN [g EXCEPT !.lastAnsi    = @ \o <<"0", "m", ESC, "[">>,
                           !.leadingZero = FALSE,
                           !.word        = @ \o <<"0", "m", ESC, "[">>]
            ELSE LET t == terminatorRune([g EXCEPT !.lastAnsi = Append(@, c)], c)
                 IN [t EXCEPT !.word = Append(@, c)]

\* a rune inside an escape sequence
ansiRune(s, c) ==
    IF c = "0" /\ s.newArgument
    THEN [s EXCEPT !.leadingZero = TRUE]
    ELSE LET a == [s EXCEPT !.newArgument = FALSE,
                            !.leadingZero = IF inGroup(NonZeroDigits, c) THEN FALSE ELSE @]
             g == IF inGroup({"[", ";"}, c) THEN [a EXCEPT !.newArgument = TRUE] ELSE a
         IN IF inGroup({"[", ";"}, c) /\ a.leadingZero
            THEN [g EXCEPT !.lastAnsi    = <<ESC, "[">>,
                           !.leadingZero = FALSE,
                           !.word        = @ \o <<"0", "m", ESC, "[">>]
            ELSE LET t == terminatorRune([g EXCEPT !.lastAnsi = Append(@, c)], c)
                 IN [t EXCEPT !.word = Append(@, c)]

\* a rune of the Newline group: the end of the current line
newlineRune(s, c) ==
    LET a == IF Len(s.word) = 0
             THEN IF s.lineLen + BytesLen(s.space) > s.Limit
                  THEN [s EXCEPT !.lineLen = 0, !.space = <<>>]
                  ELSE [s EXCEPT !.buf = @ \o s.space, !.space = <<>>]
             ELSE s
         t == addWord(a)
    IN IF t.panicked THEN t ELSE addNewLine(t)

\* a space: the end of the current word
spaceRune(s, c) ==
    LET t == addWord(s) IN
    IF t.panicked THEN t ELSE [t EXCEPT !.space = Append(@, c)]

\* a rune of the Breakpoints group
breakpointRune(s, c) ==
    LET a == addSpace(s)
        t == IF a.panicked THEN a ELSE addWord(a)
    IN IF t.panicked THEN t ELSE [t EXCEPT !.buf = Append(@, c)]

\* HardWrap: the word is at the limit, begin a new word
hardWrapRune(s, c) == addWord([s EXCEPT !.word = Append(@, c)])

\* any other rune; a line break if the current word would exceed the limit
otherRune(s, c) ==
    LET t == [s EXCEPT !.word = Append(@, c)] IN
    IF /\ t.lineLen + BytesLen(t.space) + PrintableRuneWidth(t.word) > t.Limit
       /\ PrintableRuneWidth(t.word) < t.Limit
    THEN addNewLine(t)
    ELSE t

\* the body of the loop of Write for the rune c
writeRune(s, c) ==
    LET r == restartAnsi(s) IN
    IF r.panicked THEN r
    ELSE LET t == [r EXCEPT !.wroteBegin = TRUE] IN
         IF c = ESC THEN markerRune(t, c)
         ELSE IF t.ansi THEN ansiRune(t, c)
         ELSE IF inGroup(t.Newline, c) THEN newlineRune(t, c)
         ELSE IF IsSpace(c) THEN spaceRune(t, c)
         ELSE IF inGroup(t.Breakpoints, c) THEN breakpointRune(t, c)
         ELSE IF /\ t.HardWrap
                 /\ t.lineLen + PrintableRuneWidth(t.word) + RuneWidth(c)
                       + BytesLen(t.space) = t.Limit
              THEN hardWrapRune(t, c)
         ELSE otherRune(t, c)

\* for _, c := range s; a panic ends the loop
RECURSIVE writeRunes(_, _)
writeRunes(s, text) ==
    IF text = <<>> \/ s.panicked THEN s
    ELSE writeRunes(writeRune(s, Head(text)), Tail(text))

\* strings.TrimSpace
RECURSIVE TrimLeft(_)
TrimLeft(s) == IF s # <<>> /\ IsSpace(Head(s)) THEN TrimLeft(Tail(s)) ELSE s

RECURSIVE TrimRight(_)
TrimRight(s) ==
    IF s # <<>> /\ IsSpace(s[Len(s)]) THEN TrimRight(SubSeq(s, 1, Len(s) - 1)) ELSE s

TrimSpace(s) == TrimRight(TrimLeft(s))

\* strings.Replace(s, old, new, -1) for a one-rune old
RECURSIVE Replace(_, _, _)
Replace(s, old, new) ==
    IF s = <<>> THEN <<>>
    ELSE (IF Head(s) = old THEN new ELSE <<Head(s)>>) \o Replace(Tail(s), old, new)

\* writeText that trims and joins every chunk, whatever KeepNewlines says
writeTextAlwaysTrims(s, b) ==
    LET k == Replace(TrimSpace(b), NL, <<SP>>)
    IN IF s.HardWrap THEN Replace(k, TAB, s.TabReplace) ELSE k

\* the text Write iterates over
writeText(s, b) ==
    LET k == IF ~s.KeepNewlines THEN Replace(TrimSpace(b), NL, <<SP>>) ELSE b
    IN IF s.HardWrap THEN Replace(k, TAB, s.TabReplace) ELSE k

\* Write without its early return for Limit = 0
writeBytesNoPassthrough(s, b) == writeRunes(s, writeText(s, b))

\* the writer after Write(b)
writeBytes(s, b) ==
    IF s.Limit = 0
    THEN [s EXCEPT !.buf = @ \o b]
    ELSE writeRunes(s, writeText(s, b))

\* the writer after Close()
closeWriter(s) ==
    LET t == IF s.PreserveSpaces THEN addSpace(s) ELSE s IN
    IF t.panicked THEN t ELSE addWord(t)

\* Bytes(b, limit) / String(s, limit): a default writer, one Write, Close
String(s, limit) ==
    closeWriter(writeBytes(NewWriter(limit, TRUE, FALSE, <<>>, FALSE), s)).buf

\* ---------------------------------------------------------------- bounds and inputs

MaxLimit   == 3
MaxInput   == 4
MaxChunk   == 2

PlainRunes == {"a", SP, NL, "-", WIDE, TAB}

\* the texts of 1..n runes of R
Texts(R, n) == UNION {[1..k -> R] : k \in 1..n}

TabReplaces == {<<>>, <<SP, SP>>}

\* the writers a caller can construct with limits in L: NewWriter, then the
\* exported flags set (HardWrap(s, limit, tabReplace) sets HardWrap and TabReplace)
Writers(L) ==
    {NewWriter(l, k, FALSE, <<>>, p) : l \in L, k \in BOOLEAN, p \in BOOLEAN}
    \cup {NewWriter(l, k, TRUE, t, p) :
              l \in L, k \in BOOLEAN, t \in TabReplaces, p \in BOOLEAN}

NoCall == [op |-> "none", n |-> 0, err |-> "nil"]

\* ---------------------------------------------------------------- operations

InitWith(W) ==
    /\ w \in W
    /\ input = <<>>
    /\ closed = FALSE
    /\ ret = NoCall

\* w.Write(b): returns (len(b), nil) unless it panics
Write(b) ==
    /\ ~closed
    /\ ~w.panicked
    /\ w' = writeBytes(w, b)
    /\ input' = input \o b
    /\ ret' = IF w'.panicked
              THEN [op |-> "Write", n |-> 0, err |-> "panic"]
              ELSE [op |-> "Write", n |-> BytesLen(b), err |-> "nil"]
    /\ UNCHANGED closed

\* w.Close(): returns nil unless it panics
Close ==
    /\ ~closed
    /\ ~w.panicked
    /\ w' = closeWriter(w)
    /\ closed' = TRUE
    /\ ret' = [op |-> "Close", n |-> 0,
               err |-> IF w'.panicked THEN "panic" ELSE "nil"]
    /\ UNCHANGED input

\* plain text written in chunks to any writer with a limit above zero
Init == InitWith(Writers(1..MaxLimit))

Next ==
    \/ \E b \in Texts(PlainRunes, MaxChunk) :
          /\ Len(input) + Len(b) <= MaxInput
          /\ Write(b)
    \/ Close

Spec == Init /\ [][Next]_vars

\* ---------------------------------------------------------------- reading the output

\* the positions of the line breaks of a text
Breaks(s) == {i \in 1..Len(s) : s[i] = NL}

\* the lines of a text: the maximal runs between line breaks
Lines(s) ==
    {SubSeq(s, a + 1, b - 1) :
        <<a, b>> \in {p \in (Breaks(s) \cup {0}) \X (Breaks(s) \cup {Len(s) + 1}) :
                        /\ p[1] < p[2]
                        /\ \A i \in Breaks(s) : ~(p[1] < i /\ i < p[2])}}

\* the text after the last line break
CurrentLine(s) ==
    LET B == Breaks(s) \cup {0}
        last == CHOOSE i \in B : \A j \in B : j <= i
    IN SubSeq(s, last + 1, Len(s))

\* a word with no place to break it: no whitespace, no breakpoint rune
IsAtomicWord(ln) ==
    \A i \in 1..Len(ln) : ~IsSpace(ln[i]) /\ ln[i] \notin defaultBreakpoints

\* ---------------------------------------------------------------- C1

\* C1: with a limit above zero, after Close every line of the output is at most
\* Limit columns wide, except a line that is one atomic word wider than Limit.
C1_LinesWithinLimit ==
    (closed /\ ~w.panicked /\ w.Limit > 0) =>
        \A ln \in Lines(w.buf) :
            \/ PrintableRuneWidth(ln) <= w.Limit
            \/ IsAtomicWord(ln) /\ PrintableRuneWidth(ln) > w.Limit

\* ---------------------------------------------------------------- C2

\* C2: with a limit above zero no operation aborts: every Write returns with a
\* nil error (and the count of its bytes), every Close returns nil.
C2_Total ==
    w.Limit > 0 =>
        /\ ~w.panicked
        /\ ret.err = "nil"
        /\ ret.op = "Write" => ret.n \in 1..BytesLen(input)

\* ---------------------------------------------------------------- C3

\* C3: after every operation lineLen is the printable width of what the output
\* holds since its last line break.
C3_LineLenIsWidth ==
    (w.Limit > 0 /\ ~w.panicked) =>
        w.lineLen = PrintableRuneWidth(CurrentLine(w.buf))

\* ---------------------------------------------------------------- C4

MaxPassInput == 3

PassRunes == {"a", SP, NL, TAB, "-", ESC, "0"}

\* any text written in chunks to any writer with limit zero
InitPass == InitWith(Writers({0}))

NextPass ==
    \/ \E b \in Texts(PassRunes, MaxChunk) :
          /\ Len(input) + Len(b) <= MaxPassInput
          /\ Write(b)
    \/ Close

SpecPass == InitPass /\ [][NextPass]_vars

\* C4: with limit zero the output is, at every moment and after Close, the
\* concatenation of the bytes written, whatever the other settings are.
C4_Passthrough ==
    w.Limit = 0 => ~w.panicked /\ w.buf = input

\* after Close, a text that a wrapping writer would trim and normalise came
\* through unchanged
C4_Witness ==
    /\ closed
    /\ w.Limit = 0
    /\ ~w.KeepNewlines /\ w.HardWrap /\ w.PreserveSpaces
    /\ input = <<SP, NL, TAB>>
    /\ w.buf = input

\* ---------------------------------------------------------------- styled text

MaxStyles    == 2
MaxStyleText == 4

Red  == <<ESC, "[", "3", "1", "m">>
Bold == <<ESC, "[", "1", "m">>
Styles == {Red, Bold}

\* a text without its escape sequences (marker up to and including terminator)
RECURSIVE StripFrom(_, _)
StripFrom(s, inAnsi) ==
    IF s = <<>> THEN <<>>
    ELSE IF Head(s) = ESC THEN StripFrom(Tail(s), TRUE)
    ELSE IF inAnsi THEN StripFrom(Tail(s), ~IsTerminator(Head(s)))
    ELSE <<Head(s)>> \o StripFrom(Tail(s), FALSE)

StripAnsi(s) == StripFrom(s, FALSE)

NumEsc(s) == Cardinality({i \in 1..Len(s) : s[i] = ESC})

\* a text without its spaces and tabs: what is left are the visible runes and
\* the line breaks between them
RECURSIVE Unblank(_)
Unblank(s) ==
    IF s = <<>> THEN <<>>
    ELSE (IF Head(s) \in {SP, TAB} THEN <<>> ELSE <<Head(s)>>) \o Unblank(Tail(s))

\* a fresh writer with the settings of s
SameSettings(s) ==
    NewWriter(s.Limit, s.KeepNewlines, s.HardWrap, s.TabReplace, s.PreserveSpaces)

StyleChunks == Styles \cup {<<"a">>, <<SP>>, <<WIDE>>, <<NL>>}

\* whole escape sequences and plain runes written, one per call, to a default
\* writer whose limit is above the width of every rune
InitStyle ==
    InitWith({NewWriter(l, TRUE, FALSE, <<>>, FALSE) :
                  l \in (RuneWidth(WIDE) + 1)..MaxLimit})

NextStyle ==
    \/ \E b \in StyleChunks :
          /\ NumEsc(input \o b) <= MaxStyles
          /\ Len(StripAnsi(input \o b)) <= MaxStyleText
          /\ Write(b)
    \/ Close

SpecStyle == InitStyle /\ [][NextStyle]_vars

\* ---------------------------------------------------------------- C5

\* C5: in every reachable state lastAnsi holds at most one escape sequence
\* (at most one escape marker), never two or more sequences one after the other.
C5_OneSequence ==
    NumEsc(w.lastAnsi) <= 1

\* ---------------------------------------------------------------- C6

\* the line of s that follows its line break at position i
LineAfter(s, i) ==
    LET later == {j \in Breaks(s) : j > i}
        stop  == IF later = {} THEN Len(s) + 1
                 ELSE CHOOSE j \in later : \A k \in later : j <= k
    IN SubSeq(s, i + 1, stop - 1)

IsPrefix(p, s) == Len(p) <= Len(s) /\ SubSeq(s, 1, Len(p)) = p

\* C6: when the input is one terminated non-reset sequence followed by plain
\* text without newlines, every line of the output that follows a (forced) line
\* break and holds a visible rune starts with the bytes of that sequence, also
\* when the break was made by the last rune of the input.
C6_StyleRestored ==
    (closed /\ ~w.panicked) =>
        \A st \in Styles :
            (/\ IsPrefix(st, input)
             /\ NumEsc(input) = 1
             /\ NL \notin {input[i] : i \in 1..Len(input)}) =>
                \A i \in Breaks(w.buf) :
                    PrintableRuneWidth(LineAfter(w.buf, i)) > 0 =>
                        IsPrefix(st, LineAfter(w.buf, i))

\* ---------------------------------------------------------------- C7

\* C7: after Close, the output without its escape sequences has its line breaks
\* at the same places between the visible runes as the output the same settings
\* give for the input without its escape sequences.
C7_EscapesDoNotMoveBreaks ==
    (closed /\ ~w.panicked) =>
        LET plain == closeWriter(writeBytes(SameSettings(w), StripAnsi(input)))
        IN /\ ~plain.panicked
           /\ Unblank(StripAnsi(w.buf)) = Unblank(plain.buf)

\* ---------------------------------------------------------------- C8

MaxDefaultInput == 5

\* plain text written in chunks to a default writer with a limit above zero
InitDefault == InitWith({NewWriter(l, TRUE, FALSE, <<>>, FALSE) : l \in 1..MaxLimit})

NextDefault ==
    \/ \E b \in Texts(PlainRunes, MaxChunk) :
          /\ Len(input) + Len(b) <= MaxDefaultInput
          /\ Write(b)
    \/ Close

SpecDefault == InitDefault /\ [][NextDefault]_vars

\* C8: what a default writer made of a plain text, wrapped again by a default
\* writer with the same limit, comes out unchanged.
C8_Idempotent ==
    (closed /\ ~w.panicked) =>
        LET again == closeWriter(writeBytes(SameSettings(w), w.buf))
        IN ~again.panicked /\ again.buf = w.buf

\* ---------------------------------------------------------------- escape sequences

MaxArgs == 3

Digits == NonZeroDigits \cup {"0"}

\* the arguments the sequences of the input are made of
ArgForms ==
    { <<"0">>, <<"3", "1">>, <<"3", "2">>,
      <<"0", "0", "3", "1">>, <<"0", "0", "0", "0">>, <<"1", "0">> }

ArgLists == UNION {[1..k -> ArgForms] : k \in 1..MaxArgs}

RECURSIVE JoinArgs(_)
JoinArgs(args) ==
    IF Len(args) = 1 THEN args[1]
    ELSE args[1] \o <<";">> \o JoinArgs(Tail(args))

\* an input: an optional earlier sequence, then ESC [ arg ; ... ; arg m
AnsiCases ==
    {[pre |-> p, args |-> a, text |-> p \o <<ESC, "[">> \o JoinArgs(a) \o <<"m">>] :
        p \in {<<>>, Bold}, a \in ArgLists}

AnsiInputs == {c.text : c \in AnsiCases}

\* the chunks of 1..MaxChunk runes that continue the text written so far
\* towards an input of AnsiInputs
NextChunks(written) ==
    UNION { {SubSeq(t, Len(written) + 1, Len(written) + n) :
                n \in 1..(IF Len(t) - Len(written) < MaxChunk
                          THEN Len(t) - Len(written) ELSE MaxChunk)} :
            t \in {u \in AnsiInputs : IsPrefix(written, u)} }

\* the sequences of AnsiInputs written in chunks to a default writer
InitAnsi == InitWith({NewWriter(l, TRUE, FALSE, <<>>, FALSE) : l \in {1, MaxLimit}})

NextAnsi ==
    \/ \E b \in NextChunks(input) : Write(b)
    \/ Close

SpecAnsi == InitAnsi /\ [][NextAnsi]_vars

\* an argument without its zero padding; an argument of zeros only is "0"
RECURSIVE StripZeros(_)
StripZeros(arg) ==
    IF Len(arg) > 1 /\ Head(arg) = "0" THEN StripZeros(Tail(arg)) ELSE arg

IsZeroArg(arg) == StripZeros(arg) = <<"0">>

\* the sequences the arguments are to be emitted as: a bare zero followed by a
\* separator closes its sequence ("0m") and opens the next (ESC [), and the
\* separator is dropped
RECURSIVE SplitArgs(_)
SplitArgs(args) ==
    IF Len(args) = 1 THEN StripZeros(args[1]) \o <<"m">>
    ELSE StripZeros(args[1])
            \o (IF IsZeroArg(args[1]) THEN <<"m", ESC, "[">> ELSE <<";">>)
            \o SplitArgs(Tail(args))

\* the arguments after the last bare zero that a separator follows
RECURSIVE AfterLastZero(_)
AfterLastZero(args) ==
    IF \E k \in 1..(Len(args) - 1) : IsZeroArg(args[k])
    THEN AfterLastZero(Tail(args))
    ELSE args

\* ---------------------------------------------------------------- C9

\* C9: a bare-zero argument followed by a separator splits the sequence: all of
\* ESC [ args m written, what the writer has emitted (output and pending word)
\* is the sequence closed with "0m" after each such zero and reopened with
\* ESC [, the separator dropped; and lastAnsi is the last of these sequences
\* alone (empty if that one ends in a bare zero).
C9_ZeroSplits ==
    \A c \in AnsiCases :
        (/\ input = c.text
         /\ \E k \in 1..(Len(c.args) - 1) : IsZeroArg(c.args[k])) =>
            /\ ~w.ansi
            /\ w.buf \o w.word = c.pre \o <<ESC, "[">> \o SplitArgs(c.args)
            /\ w.lastAnsi =
                  IF IsZeroArg(c.args[Len(c.args)]) THEN <<>>
                  ELSE <<ESC, "[">> \o SplitArgs(AfterLastZero(c.args))

\* ESC[31;0;32m after an earlier ESC[1m came out as ESC[31;0m ESC[32m, and
\* ESC[32m alone is the last sequence
C9_Witness ==
    /\ closed
    /\ input = Bold \o <<ESC, "[", "3", "1", ";", "0", ";", "3", "2", "m">>
    /\ w.buf = Bold \o <<ESC, "[", "3", "1", ";", "0", "m", ESC, "[", "3", "2", "m">>
    /\ w.lastAnsi = <<ESC, "[", "3", "2", "m">>

\* ---------------------------------------------------------------- C10

\* the arguments of a text: its maximal runs of digits, in order
RECURSIVE DigitRunsFrom(_, _)
DigitRunsFrom(s, run) ==
    IF s = <<>> THEN (IF run = <<>> THEN <<>> ELSE <<run>>)
    ELSE IF Head(s) \in Digits THEN DigitRunsFrom(Tail(s), Append(run, Head(s)))
    ELSE (IF run = <<>> THEN <<>> ELSE <<run>>) \o DigitRunsFrom(Tail(s), <<>>)

DigitRuns(s) == DigitRunsFrom(s, <<>>)

\* C10: after Close the arguments of the output are the arguments of the input,
\* in order, each without its zero padding and a bare zero as a single "0"; no
\* argument of the output starts with a zero that digits follow.
C10_LeadingZeros ==
    (closed /\ input \in AnsiInputs) =>
        /\ DigitRuns(w.buf) =
              [k \in 1..Len(DigitRuns(input)) |-> StripZeros(DigitRuns(input)[k])]
        /\ \A k \in 1..Len(DigitRuns(w.buf)) :
              LET arg == DigitRuns(w.buf)[k] IN Len(arg) > 1 => arg[1] # "0"

\* ESC[0031;0000m came out as ESC[31;0m
C10_Witness ==
    /\ closed
    /\ input = <<ESC, "[", "0", "0", "3", "1", ";", "0", "0", "0", "0", "m">>
    /\ w.buf = <<ESC, "[", "3", "1", ";", "0", "m">>

\* ---------------------------------------------------------------- C11

MaxSpaceLimit == 5
MaxRun        == 12

\* a word of k runes, a run of n spaces, then at most one breakpoint rune
RunTexts ==
    {Repeat("a", k) \o Repeat(SP, n) \o Repeat("-", d) :
        k \in 0..MaxSpaceLimit, n \in 0..MaxRun, d \in 0..1}

RunChunks ==
    {Repeat("a", k) : k \in 1..MaxSpaceLimit}
        \cup {Repeat(SP, n) : n \in 1..MaxRun} \cup {<<"-">>}

\* a word, then a run of spaces, written to a writer that does or does not
\* preserve spaces; the run is flushed by Close or by a breakpoint rune
InitRun ==
    InitWith({NewWriter(l, TRUE, FALSE, <<>>, p) : l \in 1..MaxSpaceLimit, p \in BOOLEAN})

NextRun ==
    \/ \E b \in RunChunks :
          /\ input \o b \in RunTexts
          /\ Write(b)
    \/ Close

SpecRun == InitRun /\ [][NextRun]_vars

\* what a run of n spaces is to be written as on a line that holds k columns
\* under limit l: the line filled up, a full line per complete multiple of l
\* that remains, the leftover on a last line
RECURSIVE FullLines(_, _)
FullLines(q, l) == IF q = 0 THEN <<>> ELSE <<NL>> \o Repeat(SP, l) \o FullLines(q - 1, l)

SplitRun(k, n, l) ==
    LET rest == n - (l - k) IN
    Repeat(SP, l - k) \o FullLines(rest \div l, l)
        \o (IF rest % l > 0 THEN <<NL>> \o Repeat(SP, rest % l) ELSE <<>>)

\* C11: Close flushing a pending run of n spaces with 0 <= lineLen <= Limit and
\* n > Limit - lineLen writes Limit - lineLen spaces on the current line, one
\* full line of Limit spaces per complete multiple of Limit that remains, the
\* leftover on a last line: n spaces in all; and lineLen is the leftover.
C11_RunSplit ==
    \A k \in 0..MaxSpaceLimit, n \in 0..MaxRun :
        (/\ closed /\ w.PreserveSpaces
         /\ input = Repeat("a", k) \o Repeat(SP, n)
         /\ k <= w.Limit /\ n > w.Limit - k) =>
            /\ ~w.panicked
            /\ w.buf = Repeat("a", k) \o SplitRun(k, n, w.Limit)
            /\ Cardinality({i \in 1..Len(w.buf) : w.buf[i] = SP}) = n
            /\ w.lineLen = (n - (w.Limit - k)) % w.Limit
            /\ w.space = <<>>

\* 12 spaces after 3 columns under limit 5 came out as 2 + 5 + 5
C11_Witness ==
    /\ closed
    /\ w.Limit = 5
    /\ input = Repeat("a", 3) \o Repeat(SP, 12)
    /\ w.buf = Repeat("a", 3) \o Repeat(SP, 2) \o <<NL>> \o Repeat(SP, 5)
                  \o <<NL>> \o Repeat(SP, 5)
    /\ w.lineLen = 0

\* ---------------------------------------------------------------- C12

Count(c, s) == Cardinality({i \in 1..Len(s) : s[i] = c})

\* C12: with a limit above zero, every breakpoint rune written to the writer
\* (outside an escape sequence) is in the output exactly once, and at the moment
\* it has been processed it is the last rune of the output, with nothing that
\* preceded it still pending.
C12_BreakpointsKept ==
    w.Limit > 0 =>
        /\ Count("-", w.buf) = Count("-", input)
        /\ (~closed /\ input # <<>> /\ input[Len(input)] = "-") =>
              /\ w.buf # <<>> /\ w.buf[Len(w.buf)] = "-"
              /\ w.word = <<>> /\ w.space = <<>>

\* the same of the operations that ran to completion
C12_KeptUnlessAborted ==
    ~w.panicked => C12_BreakpointsKept

\* ---------------------------------------------------------------- any text

MaxMixInput == 4

MixRunes == {"a", SP, NL, "-", ESC, "[", ";", "0", "m"}

\* any text of plain runes and of the runes of escape sequences, well formed or
\* not, written rune by rune to a writer with a limit above zero
InitMix ==
    InitWith({NewWriter(l, TRUE, h, <<>>, p) :
                  l \in {1, MaxLimit}, h \in BOOLEAN, p \in BOOLEAN})

NextMix ==
    \/ \E c \in MixRunes :
          /\ Len(input) < MaxMixInput
          /\ Write(<<c>>)
    \/ Close

SpecMix == InitMix /\ [][NextMix]_vars

\* ---------------------------------------------------------------- C13

\* C13: the output is append-only: every Write and every Close leaves the
\* output it found as a prefix of the output it leaves.
C13_AppendOnly ==
    [][IsPrefix(w.buf, w'.buf)]_vars

\* after Close, an output of three lines, written over several calls
C13_Witness ==
    /\ closed
    /\ ~w.panicked
    /\ Count(NL, w.buf) >= 2
    /\ w.buf[Len(w.buf)] # NL

\* ---------------------------------------------------------------- C14

\* the words of a text: its maximal runs of runes that are neither whitespace
\* nor a newline nor a breakpoint rune, in order
RECURSIVE WordsFrom(_, _)
WordsFrom(s, run) ==
    IF s = <<>> THEN (IF run = <<>> THEN <<>> ELSE <<run>>)
    ELSE IF IsSpace(Head(s)) \/ Head(s) \in defaultBreakpoints
         THEN (IF run = <<>> THEN <<>> ELSE <<run>>) \o WordsFrom(Tail(s), <<>>)
         ELSE WordsFrom(Tail(s), Append(run, Head(s)))

Words(s) == WordsFrom(s, <<>>)

\* C14: without HardWrap no word is split by a line break: after Close the
\* words of the output (escape sequences aside) are the words of the input,
\* also those as wide as the limit or wider, also when a style is restarted
\* after line breaks.
C14_WordsUnsplit ==
    (closed /\ ~w.panicked /\ ~w.HardWrap /\ w.Limit > 0) =>
        Words(StripAnsi(w.buf)) = Words(StripAnsi(input))

\* ---------------------------------------------------------------- C15

\* the runes that reach the last two branches of Write
OtherRunes == {"a", WIDE}

\* the condition of the HardWrap branch for the rune c
ExactFit(s, c) ==
    /\ s.HardWrap
    /\ ~s.ansi
    /\ s.lineLen + PrintableRuneWidth(s.word) + RuneWidth(c) + BytesLen(s.space) = s.Limit

\* C15: with HardWrap and a limit above zero, a rune that makes line, pending
\* spaces and pending word exactly Limit columns is appended and the word
\* flushed, so that the line holds exactly Limit columns; the next visible rune
\* is placed on a new line; and no line of the output exceeds Limit.
C15_HardWrapExactFit ==
    [][ (w.HardWrap /\ w.Limit > 0 /\ ~w'.panicked) =>
          /\ \A c \in OtherRunes :
                (input' = Append(input, c) /\ ExactFit(w, c)) =>
                    /\ w'.word = <<>>
                    /\ PrintableRuneWidth(CurrentLine(w'.buf)) = w.Limit
          /\ \A d \in OtherRunes :
                (/\ input' = Append(input, d)
                 /\ w.word = <<>> /\ w.space = <<>> /\ ~w.ansi
                 /\ w.lineLen = w.Limit
                 /\ PrintableRuneWidth(CurrentLine(w.buf)) = w.Limit) =>
                    /\ w'.buf = Append(w.buf, NL)
                    /\ w'.word = <<d>>
          /\ closed' =>
                \A ln \in Lines(w'.buf) : PrintableRuneWidth(ln) <= w.Limit ]_vars

\* ---------------------------------------------------------------- C16

\* whether a text ends inside an escape sequence: an ESC with no terminator
\* after it
RECURSIVE InsideFrom(_, _)
InsideFrom(s, inAnsi) ==
    IF s = <<>> THEN inAnsi
    ELSE IF Head(s) = ESC THEN InsideFrom(Tail(s), TRUE)
    ELSE InsideFrom(Tail(s), inAnsi /\ ~IsTerminator(Head(s)))

InsideEscape(s) == InsideFrom(s, FALSE)

IsSuffix(p, s) == Len(p) <= Len(s) /\ SubSeq(s, Len(s) - Len(p) + 1, Len(s)) = p

\* what Close has to do with a pending unterminated sequence: empty the word
\* and leave its bytes at the end of the output
FlushedAsIs ==
    (closed' /\ ~closed) =>
        /\ ESC \in {w.word[i] : i \in 1..Len(w.word)}
        /\ w'.word = <<>>
        /\ IsSuffix(w.word, w'.buf)

\* C16: when the input ends inside an escape sequence, no operation fails, and
\* Close empties the pending word and leaves the buffered bytes of the
\* incomplete sequence at the end of the output.
C16_UnterminatedFlushed ==
    [][ (w.Limit > 0 /\ InsideEscape(input')) =>
            /\ ~w'.panicked
            /\ w'.ansi
            /\ FlushedAsIs ]_vars

\* the same, for the runs in which addSpace is not entered with a negative count
C16_FlushedUnlessAborted ==
    [][ (w.Limit > 0 /\ InsideEscape(input') /\ ~w'.panicked) =>
            /\ w'.ansi
            /\ FlushedAsIs ]_vars

\* ---------------------------------------------------------------- C17

\* C17: outside an escape sequence (ansi false) newArgument and leadingZero are
\* both false, in every state; and after a terminator letter the writer is
\* outside the sequence with both flags cleared.
C17_FlagsOnlyInside ==
    /\ ~w.ansi => (~w.newArgument /\ ~w.leadingZero)
    /\ (w.Limit > 0 /\ input # <<>> /\ IsTerminator(input[Len(input)])) =>
           (~w.ansi /\ ~w.newArgument /\ ~w.leadingZero)

\* a bare-zero sequence has been terminated: leadingZero was set and is cleared
C17_Witness ==
    /\ input = <<ESC, "[", "0", "m">>
    /\ w.word = <<ESC, "[", "0", "m">>
    /\ ~w.ansi /\ ~w.newArgument /\ ~w.leadingZero

\* ---------------------------------------------------------------- C18

\* the positions of the line breaks that a step appends to the output
NewBreaks(old, new) == {i \in Breaks(new) : i > Len(old)}

\* C18: every line break appended to the output while lastAnsi is non-empty is
\* immediately preceded by the reset sequence, whether the break is an explicit
\* newline, a word-overflow break or a break inside a split run of spaces. (A
\* newline rune that is itself part of an escape sequence travels with the word
\* and is not a break of the writer.)
C18_ResetBeforeBreak ==
    [][ (/\ w.lastAnsi # <<>>
         /\ ~w.ansi
         /\ NL \notin {w.word[i] : i \in 1..Len(w.word)}
         /\ NL \notin {w.lastAnsi[i] : i \in 1..Len(w.lastAnsi)}) =>
            \A i \in NewBreaks(w.buf, w'.buf) :
                /\ i > Len(ResetSeq)
                /\ SubSeq(w'.buf, i - Len(ResetSeq), i - 1) = ResetSeq ]_vars

\* ---------------------------------------------------------------- C19

\* the visible runes of a text: escape sequences and whitespace removed
RECURSIVE Unspace(_)
Unspace(s) ==
    IF s = <<>> THEN <<>>
    ELSE (IF IsSpace(Head(s)) \/ Head(s) = NL THEN <<>> ELSE <<Head(s)>>) \o Unspace(Tail(s))

Visible(s) == Unspace(StripAnsi(s))

\* C19: with a limit above zero and KeepNewlines, after Close the visible
\* runes of the output are those of the input, in the same order.
C19_ContentPreserved ==
    (closed /\ w.Limit > 0 /\ w.KeepNewlines) => Visible(w.buf) = Visible(input)

\* the same, for the runs in which addSpace is not entered with a negative count
C19_PreservedUnlessAborted ==
    ~w.panicked => C19_ContentPreserved

\* ---------------------------------------------------------------- C20

MaxSplitInput == 4

SplitRunes == {"a", SP, NL, "-", ESC, "0", "m"}

\* any text, escape sequences included, written in chunks of 1..MaxChunk runes
\* to a writer that keeps newlines
InitSplit ==
    InitWith({NewWriter(l, TRUE, h, <<>>, p) :
                 l \in {1, MaxLimit}, h \in BOOLEAN, p \in BOOLEAN})

NextSplit ==
    \/ \E k \in 1..MaxChunk :
          /\ Len(input) + k <= MaxSplitInput
          /\ \E b \in [1..k -> SplitRunes] : Write(b)
    \/ Close

SpecSplit == InitSplit /\ [][NextSplit]_vars

\* C20: with KeepNewlines and a limit above zero, the writer after the input
\* was written in any chunks and closed is the writer after one Write of the
\* whole input and Close: same output, same final state.
C20_ChunkingInvariant ==
    (closed /\ w.KeepNewlines /\ w.Limit > 0) =>
        w = closeWriter(writeBytes(SameSettings(w), input))

\* a text written in at least two chunks, with an escape sequence and a forced
\* line break
C20_Witness ==
    /\ closed /\ ~w.panicked /\ w.KeepNewlines
    /\ Len(input) > MaxChunk
    /\ ESC \in {input[i] : i \in 1..Len(input)}
    /\ Count(NL, w.buf) > Count(NL, input)

====
